---- MODULE Spec2Model ----
(***************************************************************************)
(* Model of the pagination range hook of DR-Lib (hooks/usePagination.ts).  *)
(*                                                                         *)
(* The hook is a memoised pure function of four props.  The state is the   *)
(* props of the last render together with the memoised range; a render     *)
(* with a changed prop recomputes the range (the useMemo dependency list). *)
(*                                                                         *)
(* siblingCount is the destructured parameter: the default when the caller *)
(* omitted the prop (siblingCountOmitted), the caller's value otherwise.   *)
(*                                                                         *)
(* An entry of the returned array is a number or the string DOTS.  An      *)
(* entry is modelled as a record [dots, page]: a page number p is          *)
(* [dots |-> FALSE, page |-> p] and DOTS is [dots |-> TRUE, page |-> 0].   *)
(***************************************************************************)
EXTENDS Integers, Sequences, FiniteSets, TLC

VARIABLES totalCount, pageSize, siblingCountOmitted, siblingCount, currentPage,
          paginationRange, warned

(* The page component that renders the hook ("hook" when the hook is taken *)
(* alone), its totalPages, and the last user event it handled.             *)
VARIABLES component, totalPages, lastEvent

(* The state of the main and references pages besides currentPage,         *)
(* totalItems (totalCount) and apiTotalPages (totalPages): the flags, the  *)
(* search field and the submitted query, the length of the loaded list,    *)
(* the fetches awaiting their response in the order they were started      *)
(* (each with the currentPage and the trimmed query of its closure), and   *)
(* how the last settled fetch ended.                                       *)
VARIABLES loading, errorShown, isLoggedIn, isLoggingOut, searchInput, activeSearchQuery,
          itemCount, inflight, lastSettled

(* The list and the modal of the references page: the page whose files     *)
(* currentReferenceFiles holds (itemCount of them; a file is named by its  *)
(* global index in the listing; 0 when the list is empty and on the main   *)
(* page, whose catalogs are not told apart), the selected global index and *)
(* the file of modalFileDetails, each with a value for null.               *)
VARIABLES loadedPage, selectedFileGlobalIndex, modalFileDetails

hookVars == <<totalCount, pageSize, siblingCountOmitted, siblingCount, currentPage,
              paginationRange, warned>>

pagerVars == <<component, totalPages, lastEvent>>

pageVars == <<loading, errorShown, isLoggedIn, isLoggingOut, searchInput,
              activeSearchQuery, itemCount, inflight, lastSettled,
              loadedPage, selectedFileGlobalIndex, modalFileDetails>>

(* null of selectedFileGlobalIndex and of modalFileDetails *)
NoSelection == -1

NoFile == -1

vars == <<hookVars, pagerVars, pageVars>>

NoEvent == [kind |-> "none", index |-> 0]

(* the page state where no page is modelled *)
PageIdle ==
    /\ loading = FALSE
    /\ errorShown = FALSE
    /\ isLoggedIn = "null"
    /\ isLoggingOut = FALSE
    /\ searchInput = <<>>
    /\ activeSearchQuery = <<>>
    /\ itemCount = 0
    /\ inflight = <<>>
    /\ lastSettled = "none"
    /\ loadedPage = 0
    /\ selectedFileGlobalIndex = NoSelection
    /\ modalFileDetails = NoFile

----------------------------------------------------------------------------
(* Bounds of the explored inputs *)

MaxTotalCount == 30

MaxPageSize == 2

MaxSiblingCount == 4

MaxCurrentPage == 32

(* the inputs of the worked examples: 240 or 2400 items, 24 per page, page 50 *)
ExampleTotalCounts == {240, 2400}

ExamplePageSizes == {24}

ExampleCurrentPages == {50}

TotalCounts == (0..MaxTotalCount) \cup ExampleTotalCounts

PageSizes == (1..MaxPageSize) \cup ExamplePageSizes

SiblingCounts == 0..MaxSiblingCount

CurrentPages == (1..MaxCurrentPage) \cup ExampleCurrentPages

----------------------------------------------------------------------------
(* hooks/usePagination.ts *)

DOTS == [dots |-> TRUE, page |-> 0]

PageEntry(p) == [dots |-> FALSE, page |-> p]

(* Array.from({ length }, (_, idx) => idx + start): a length below 1 gives [] *)
range(start, end) ==
    LET length == end - start + 1
    IN  IF length <= 0 THEN <<>>
        ELSE [i \in 1..length |-> (i - 1) + start]

(* a number[] spread into the (number | string)[] result *)
Pages(numbers) == [i \in 1..Len(numbers) |-> PageEntry(numbers[i])]

(* the quotient rounded down, plus one *)
totalPageCountFloorPlusOne(tc, ps) == (tc \div ps) + 1

(* Math.floor in place of Math.ceil *)
totalPageCountFloor(tc, ps) == tc \div ps

(* Math.ceil(totalCount / pageSize), totalCount >= 0 and pageSize > 0 *)
totalPageCount(tc, ps) ==
    IF tc % ps = 0 THEN tc \div ps ELSE (tc \div ps) + 1

(* counts only the current page and its siblings *)
totalPageNumbersToShowSiblingsOnly(sc) == 1 + 2 * sc

totalPageNumbersToShow(sc) == 5 + 2 * sc

Max(a, b) == IF a >= b THEN a ELSE b

Min(a, b) == IF a <= b THEN a ELSE b

(* off by one to the left *)
leftSiblingIndexOffByOne(cp, sc) == Max(cp - sc - 1, 1)

leftSiblingIndex(cp, sc) == Max(cp - sc, 1)

rightSiblingIndex(cp, sc, tpc) == Min(cp + sc, tpc)

(* dots as soon as the left sibling is not the first page *)
shouldShowLeftDotsFromTwo(lsi) == lsi > 1

(* dots only when at least two pages are left out *)
shouldShowLeftDotsFromFour(lsi) == lsi > 3

shouldShowLeftDots(lsi) == lsi > 2

(* compares with the last page instead of the page before it *)
shouldShowRightDotsUpToLast(rsi, tpc) == rsi <= tpc

(* dots as soon as the right sibling is not the last page *)
shouldShowRightDotsBeforeLast(rsi, tpc) == rsi < tpc

shouldShowRightDots(rsi, tpc) == rsi < tpc - 1

firstPageIndex == 1

(* zero-based index of the last page *)
lastPageIndexZeroBased(tpc) == tpc - 1

lastPageIndex(tpc) == tpc

(* the whole span instead of the span less the dots and the last page *)
leftItemCountWholeSpan(sc) == 5 + 2 * sc

(* the current page and its siblings only *)
leftItemCountSiblingsOnly(sc) == 1 + 2 * sc

leftItemCount(sc) == 3 + 2 * sc

(* the whole span instead of the span less the dots and the first page *)
rightItemCountWholeSpan(sc) == 5 + 2 * sc

rightItemCount(sc) == 3 + 2 * sc

leftRange(sc) == range(1, leftItemCount(sc))

(* start of the right range without the + 1 *)
rightRangeOneMore(sc, tpc) == range(tpc - rightItemCount(sc), tpc)

rightRange(sc, tpc) == range(tpc - rightItemCount(sc) + 1, tpc)

(* siblings strictly between the two indices *)
middleRangeExclusive(lsi, rsi) == range(lsi + 1, rsi - 1)

middleRange(lsi, rsi) == range(lsi, rsi)

(* The body of the useMemo callback: value is the array it returns, warn   *)
(* is TRUE when the console.warn of the fallback branch ran.               *)
computeRange(tc, ps, sc, cp) ==
    LET tpc   == totalPageCount(tc, ps)
        lsi   == leftSiblingIndex(cp, sc)
        rsi   == rightSiblingIndex(cp, sc, tpc)
        left  == shouldShowLeftDots(lsi)
        right == shouldShowRightDots(rsi, tpc)
    IN  IF totalPageNumbersToShow(sc) >= tpc
          THEN [value |-> Pages(range(1, tpc)), warn |-> FALSE]
        ELSE IF ~left /\ right
          THEN [value |-> Pages(leftRange(sc)) \o <<DOTS, PageEntry(lastPageIndex(tpc))>>,
                warn  |-> FALSE]
        ELSE IF left /\ ~right
          THEN [value |-> <<PageEntry(firstPageIndex), DOTS>> \o Pages(rightRange(sc, tpc)),
                warn  |-> FALSE]
        ELSE IF left /\ right
          THEN [value |-> <<PageEntry(firstPageIndex), DOTS>> \o Pages(middleRange(lsi, rsi))
                            \o <<DOTS, PageEntry(lastPageIndex(tpc))>>,
                warn  |-> FALSE]
        ELSE [value |-> Pages(range(1, tpc)), warn |-> TRUE]

(* the default of the destructured parameter: siblingCount = 6 *)
defaultSiblingCount == 6

(* the value the parameter siblingCount takes: the default when omitted *)
siblingCountParam(omitted, given) == IF omitted THEN defaultSiblingCount ELSE given

(* One render of the hook with the given props: useMemo recomputes the     *)
(* range and the hook returns it.                                          *)
usePagination(tc, ps, omitted, given, cp) ==
    LET sc == siblingCountParam(omitted, given)
        r  == computeRange(tc, ps, sc, cp)
    IN  /\ totalCount' = tc
        /\ pageSize' = ps
        /\ siblingCountOmitted' = omitted
        /\ siblingCount' = sc
        /\ currentPage' = cp
        /\ paginationRange' = r.value
        /\ warned' = r.warn

(* The first render *)
Init ==
    \E tc \in TotalCounts, ps \in PageSizes, omitted \in BOOLEAN,
       given \in SiblingCounts, cp \in CurrentPages :
        LET sc == siblingCountParam(omitted, given)
            r  == computeRange(tc, ps, sc, cp)
        IN  /\ totalCount = tc
            /\ pageSize = ps
            /\ siblingCountOmitted = omitted
            /\ siblingCount = sc
            /\ currentPage = cp
            /\ paginationRange = r.value
            /\ warned = r.warn
            /\ component = "hook"
            /\ totalPages = 0
            /\ lastEvent = NoEvent
            /\ PageIdle

(* Re-renders: one dependency of the useMemo changed *)
RenderTotalCount ==
    \E tc \in TotalCounts \ {totalCount} :
        /\ usePagination(tc, pageSize, siblingCountOmitted, siblingCount, currentPage)
        /\ UNCHANGED <<pagerVars, pageVars>>

RenderPageSize ==
    \E ps \in PageSizes \ {pageSize} :
        /\ usePagination(totalCount, ps, siblingCountOmitted, siblingCount, currentPage)
        /\ UNCHANGED <<pagerVars, pageVars>>

RenderSiblingCount ==
    \E sc \in SiblingCounts :
        /\ siblingCountOmitted \/ sc # siblingCount
        /\ usePagination(totalCount, pageSize, FALSE, sc, currentPage)
        /\ UNCHANGED <<pagerVars, pageVars>>

(* the caller stops passing siblingCount *)
RenderSiblingCountOmitted ==
    /\ ~siblingCountOmitted
    /\ usePagination(totalCount, pageSize, TRUE, siblingCount, currentPage)
    /\ UNCHANGED <<pagerVars, pageVars>>

RenderCurrentPage ==
    \E cp \in CurrentPages \ {currentPage} :
        /\ usePagination(totalCount, pageSize, siblingCountOmitted, siblingCount, cp)
        /\ UNCHANGED <<pagerVars, pageVars>>

Next ==
    \/ RenderTotalCount
    \/ RenderPageSize
    \/ RenderSiblingCount
    \/ RenderSiblingCountOmitted
    \/ RenderCurrentPage

Spec == Init /\ [][Next]_vars

----------------------------------------------------------------------------
(* The pagers of the four pages: main (catalogs), references (reference    *)
(* files), catalog (images of one catalog) and favorites.  PagerSpec takes *)
(* the pages with their data loaded and unchanging: the only events are    *)
(* the clicks on the controls of the pager.                                *)

PagerComponents == {"main", "references", "catalog", "favorites"}

(* the pagers whose totalPages comes from the API response *)
ApiPaged(c) == c \in {"main", "references"}

MaxPagerPages == 16

(* the default of CATALOGS_PER_PAGE *)
CATALOGS_PER_PAGE == 24

MAIN_SIBLING_COUNT == 4

(* the default of FILES_PER_PAGE *)
FILES_PER_PAGE == 20

REFERENCES_SIBLING_COUNT == 2

IMAGES_PER_PAGE == 18

IMAGE_PAGINATION_SIBLING_COUNT == 2

FAVORITES_PER_PAGE == 18

FAVORITES_PAGINATION_SIBLING_COUNT == 1

perPage(c) ==
    CASE c = "main"       -> CATALOGS_PER_PAGE
      [] c = "references" -> FILES_PER_PAGE
      [] c = "catalog"    -> IMAGES_PER_PAGE
      [] c = "favorites"  -> FAVORITES_PER_PAGE

siblingCountOf(c) ==
    CASE c = "main"       -> MAIN_SIBLING_COUNT
      [] c = "references" -> REFERENCES_SIBLING_COUNT
      [] c = "catalog"    -> IMAGE_PAGINATION_SIBLING_COUNT
      [] c = "favorites"  -> FAVORITES_PAGINATION_SIBLING_COUNT

(* the numbers of items that fill 0..MaxPagerPages pages, the last page    *)
(* full or holding one item                                                *)
PagerTotals(ps) ==
    {k * ps : k \in 0..MaxPagerPages} \cup {k * ps + 1 : k \in 0..(MaxPagerPages - 1)}

(* the numeric entry found scanning left from the entry before position    *)
(* index, 1 when there is none (positions count from 1)                    *)
prevNumericOf(r, index) ==
    LET found == {j \in 1..(index - 1) : j <= Len(r) /\ ~r[j].dots}
    IN  IF found = {} THEN 1
        ELSE r[CHOOSE j \in found : \A k \in found : k <= j].page

(* the numeric entry found scanning right from the entry after position    *)
(* index, totalPages when there is none                                    *)
nextNumericOf(r, index, tp) ==
    LET found == {j \in (index + 1)..Len(r) : ~r[j].dots}
    IN  IF found = {} THEN tp
        ELSE r[CHOOSE j \in found : \A k \in found : j <= k].page

(* Math.round((prevNumeric + nextNumeric) / 2): halves round up *)
midpointTarget(prev, next) == (prev + next + 1) \div 2

(* nextNumeric < totalPages ? prevNumeric + 1 : prevNumeric + 1 *)
afterPrevTarget(prev, next, tp) == IF next < tp THEN prev + 1 ELSE prev + 1

(* targetPage of the ellipsis rendered at position index *)
targetPage(c, r, index, tp) ==
    LET prev == prevNumericOf(r, index)
        next == nextNumericOf(r, index, tp)
    IN  IF ApiPaged(c) THEN midpointTarget(prev, next)
        ELSE afterPrevTarget(prev, next, tp)

(* the ellipsis at position index is rendered as a button that jumps *)
dotsIsButton(c, r, index, tp) ==
    LET prev   == prevNumericOf(r, index)
        next   == nextNumericOf(r, index, tp)
        target == targetPage(c, r, index, tp)
    IN  IF ApiPaged(c)
          THEN target > 0 /\ target <= tp /\ target # prev /\ target # next
          ELSE target > 0 /\ target <= tp

(* handlePageChange / handleImagePageChange called with a number *)
handlePageChange(c, pageNumber, tp) ==
    IF ApiPaged(c) THEN Max(1, Min(pageNumber, tp)) ELSE pageNumber

(* the state update of an event of the pager, and the render that follows *)
PagerSetCurrentPage(page, event) ==
    /\ usePagination(totalCount, pageSize, FALSE, siblingCount, page)
    /\ lastEvent' = event
    /\ UNCHANGED <<component, totalPages, pageVars>>

PagerInit ==
    \E c \in PagerComponents :
      \E tc \in PagerTotals(perPage(c)) :
        LET tp == totalPageCount(tc, perPage(c))
        IN  \E cp \in 1..Max(1, tp) :
              LET r == computeRange(tc, perPage(c), siblingCountOf(c), cp)
              IN  /\ component = c
                  /\ totalCount = tc
                  /\ pageSize = perPage(c)
                  /\ siblingCountOmitted = FALSE
                  /\ siblingCount = siblingCountOf(c)
                  /\ currentPage = cp
                  /\ paginationRange = r.value
                  /\ warned = r.warn
                  /\ totalPages = tp
                  /\ lastEvent = NoEvent
                  /\ PageIdle

(* the navigation is rendered *)
PagerShown == totalPages > 1

(* the Prev button *)
handlePreviousPage ==
    /\ PagerShown
    /\ currentPage # 1
    /\ PagerSetCurrentPage(Max(currentPage - 1, 1), [kind |-> "previous", index |-> 0])

(* the Next button *)
handleNextPage ==
    /\ PagerShown
    /\ currentPage # totalPages
    /\ PagerSetCurrentPage(Min(currentPage + 1, totalPages), [kind |-> "next", index |-> 0])

(* the button of a page number *)
ClickPageNumber ==
    \E index \in 1..Len(paginationRange) :
        /\ PagerShown
        /\ ~paginationRange[index].dots
        /\ currentPage # paginationRange[index].page
        /\ PagerSetCurrentPage(
               handlePageChange(component, paginationRange[index].page, totalPages),
               [kind |-> "page", index |-> index])

(* the button of an ellipsis *)
ClickDots ==
    \E index \in 1..Len(paginationRange) :
        /\ PagerShown
        /\ paginationRange[index].dots
        /\ dotsIsButton(component, paginationRange, index, totalPages)
        /\ PagerSetCurrentPage(
               handlePageChange(component,
                                targetPage(component, paginationRange, index, totalPages),
                                totalPages),
               [kind |-> "dots", index |-> index])

PagerNext ==
    \/ handlePreviousPage
    \/ handleNextPage
    \/ ClickPageNumber
    \/ ClickDots

PagerSpec == PagerInit /\ [][PagerNext]_vars

(***************************************************************************)
(* The main page and the references page: the fetch of the current page,   *)
(* the validation of currentPage against the response, the pager, the      *)
(* arrow keys, the search form, the check of the login and the logout.     *)
(* totalCount is the state totalItems, totalPages is apiTotalPages.  All   *)
(* the state updates of one handler are applied in one batch, and the      *)
(* effects whose dependencies changed run before the next event.  While    *)
(* loading is set every control is disabled or not rendered (that is also  *)
(* what the first render shows), so the guards of the events read loading  *)
(* and the ref isInitialLoad is not part of the state.  The modal of the   *)
(* references page stays closed.                                           *)
(***************************************************************************)

PageComponents == {"main", "references"}

MaxApiPages == 14
MaxUrlPage == 2
MaxQueryLen == 1

(* the characters of a search string: white space and another one *)
Chars == {" ", "a"}

(* the page counts a response may carry: none, few, and enough for the     *)
(* pager of either page to show an ellipsis                                *)
ApiPageCounts == (0..2) \cup {MaxApiPages - 4, MaxApiPages}

QueryStrings == UNION {[1..n -> Chars] : n \in 0..MaxQueryLen}

(* String.prototype.trimStart *)
RECURSIVE trimStart(_)
trimStart(s) == IF s # <<>> /\ Head(s) = " " THEN trimStart(Tail(s)) ELSE s

(* String.prototype.trimEnd *)
RECURSIVE trimEnd(_)
trimEnd(s) ==
    IF s # <<>> /\ s[Len(s)] = " " THEN trimEnd(SubSeq(s, 1, Len(s) - 1)) ELSE s

trimNothing(s) == s

(* String.prototype.trim *)
trim(s) == trimEnd(trimStart(s))

(* getInitialPage: the page of the URL when it is a positive number, else 1 *)
getInitialPage(urlPage) == IF urlPage > 0 THEN urlPage ELSE 1

(* the fetch of a page: the currentPage and the trimmed activeSearchQuery  *)
(* that the closure of the effect holds                                    *)
Request(page, query) == [page |-> page, query |-> trim(query)]

(* the sequence without its i-th element *)
RemoveAt(seq, i) == SubSeq(seq, 1, i - 1) \o SubSeq(seq, i + 1, Len(seq))

(* a dependency of the fetch effect changed with the update *)
fetchDepsChanged(page, query, logged) ==
    \/ page # currentPage
    \/ query # activeSearchQuery
    \/ (component = "references" /\ logged # isLoggedIn)

(* the fetch effect runs and does not return early *)
fetchStarts(page, query, logged) ==
    /\ fetchDepsChanged(page, query, logged)
    /\ ~(component = "references" /\ logged = "null")

(* Math.floor(selectedFileGlobalIndex / FILES_PER_PAGE) + 1 *)
pageOfIndex(idx, ps) == idx \div ps + 1

(* The effect that syncs the grid page with the modal, run in a render     *)
(* with these values: the page it leaves as currentPage.                   *)
syncedPage(page, idx, tc, tp, ps) ==
    IF idx # NoSelection /\ tc > 0 /\ tp > 0 /\ pageOfIndex(idx, ps) # page
      THEN Max(1, Min(pageOfIndex(idx, ps), tp))
      ELSE page

(* The effect that updates modalFileDetails, run in a render with these    *)
(* values: lp is the page whose n files currentReferenceFiles holds, and   *)
(* the file taken is currentReferenceFiles[idx % ps].                      *)
detailsOf(page, idx, lp, n, ps, previous) ==
    IF idx = NoSelection THEN NoFile
    ELSE IF pageOfIndex(idx, ps) = page /\ (idx % ps) < n
      THEN (lp - 1) * ps + (idx % ps)
      ELSE previous

MaxInflight == 2

(* One batch of state updates and the effects that follow it.  The render  *)
(* with the updated values runs the effects whose dependencies changed:    *)
(* the fetch effect (it sets loading, clears the error and sends the       *)
(* request), and on the references page the sync effect and the effect of  *)
(* modalFileDetails.  When the sync effect sets another currentPage, the   *)
(* next render runs the fetch effect and the effect of modalFileDetails    *)
(* again; the sync effect then finds its page current.  filesSet tells     *)
(* that the batch stored a new array of files; pending, loadingNow and     *)
(* errorNow are inflight, loading and error as the handler leaves them.    *)
Effects(tc, tp, page, query, logged, lp, n, filesSet, idx, pending, loadingNow, errorNow) ==
    LET onReferences == component = "references"
        syncRuns    == /\ onReferences
                       /\ \/ idx # selectedFileGlobalIndex
                          \/ page # currentPage
                          \/ tp # totalPages
                          \/ tc # totalCount
        page2       == IF syncRuns THEN syncedPage(page, idx, tc, tp, pageSize) ELSE page
        detailsRuns == /\ onReferences
                       /\ \/ idx # selectedFileGlobalIndex
                          \/ filesSet
                          \/ page # currentPage
        details1    == IF detailsRuns
                         THEN detailsOf(page, idx, lp, n, pageSize, modalFileDetails)
                         ELSE modalFileDetails
        details2    == IF page2 # page
                         THEN detailsOf(page2, idx, lp, n, pageSize, details1)
                         ELSE details1
        first       == IF fetchStarts(page, query, logged)
                         THEN <<Request(page, query)>> ELSE <<>>
        second      == IF page2 # page /\ logged # "null"
                         THEN <<Request(page2, query)>> ELSE <<>>
    IN  /\ usePagination(tc, pageSize, FALSE, siblingCount, page2)
        /\ activeSearchQuery' = query
        /\ isLoggedIn' = logged
        /\ modalFileDetails' = details2
        /\ inflight' = pending \o first \o second
        /\ Len(inflight') <= MaxInflight
        /\ IF first \o second # <<>>
             THEN /\ loading' = TRUE
                  /\ errorShown' = FALSE
             ELSE /\ loading' = loadingNow
                  /\ errorShown' = errorNow

(* a batch that leaves the list, the page count and the selection alone *)
Commit(tc, page, query, logged, pending, loadingNow, errorNow) ==
    /\ Effects(tc, totalPages, page, query, logged, loadedPage, itemCount, FALSE,
               selectedFileGlobalIndex, pending, loadingNow, errorNow)
    /\ UNCHANGED <<loadedPage, selectedFileGlobalIndex>>

(* an event that calls setCurrentPage only *)
PageSetCurrentPage(page, event) ==
    /\ Commit(totalCount, page, activeSearchQuery, isLoggedIn, inflight, loading, errorShown)
    /\ lastEvent' = event
    /\ UNCHANGED <<component, totalPages, isLoggingOut, searchInput, itemCount, lastSettled>>

PageInit ==
    \E c \in PageComponents, urlPage \in 0..MaxUrlPage, q \in QueryStrings :
        LET r == computeRange(0, perPage(c), siblingCountOf(c), getInitialPage(urlPage))
        IN  /\ component = c
            /\ totalCount = 0
            /\ pageSize = perPage(c)
            /\ siblingCountOmitted = FALSE
            /\ siblingCount = siblingCountOf(c)
            /\ currentPage = getInitialPage(urlPage)
            /\ paginationRange = r.value
            /\ warned = r.warn
            /\ totalPages = 0
            /\ lastEvent = NoEvent
            /\ loading = TRUE
            /\ errorShown = FALSE
            /\ isLoggedIn = "null"
            /\ isLoggingOut = FALSE
            /\ searchInput = q
            /\ activeSearchQuery = q
            /\ itemCount = 0
            /\ inflight = IF c = "main" THEN <<Request(getInitialPage(urlPage), q)>> ELSE <<>>
            /\ lastSettled = "none"
            /\ loadedPage = 0
            /\ selectedFileGlobalIndex = NoSelection
            /\ modalFileDetails = NoFile

(* checkAuthStatus settles *)
AuthChecked ==
    \E logged \in {"true", "false"} :
        /\ isLoggedIn = "null"
        /\ Commit(totalCount, currentPage, activeSearchQuery, logged,
                  inflight, loading, errorShown)
        /\ lastEvent' = [kind |-> "auth", index |-> 0]
        /\ UNCHANGED <<component, totalPages, isLoggingOut, searchInput, itemCount,
                       lastSettled>>

(* the items of page `page` when there are tc items on tp pages *)
itemsOfPage(page, tc, tp, ps) ==
    IF page > tp THEN 0 ELSE IF page < tp THEN ps ELSE tc - (tp - 1) * ps

(* the item totals that make tp pages of ps items *)
TotalsOfPages(tp, ps) ==
    IF tp = 0 THEN {0} ELSE {(tp - 1) * ps + 1, tp * ps}

validatedPageFloorOnly(page, fetchedPage, tp) ==
    IF tp = 0 /\ fetchedPage # 1 THEN 1 ELSE page

(* the validation of the response: page is the state currentPage,          *)
(* fetchedPage the currentPage of the closure                              *)
validatedPage(page, fetchedPage, tp) ==
    IF tp > 0 /\ fetchedPage > tp THEN tp
    ELSE IF tp = 0 /\ fetchedPage # 1 THEN 1
    ELSE page

(* a fetch settles with a response carrying data: tc items on tp pages *)
Respond(tp, tc) ==
    \E i \in 1..Len(inflight) :
        /\ Effects(tc, tp, validatedPage(currentPage, inflight[i].page, tp),
                   activeSearchQuery, isLoggedIn,
                   inflight[i].page, itemsOfPage(inflight[i].page, tc, tp, pageSize), TRUE,
                   selectedFileGlobalIndex, RemoveAt(inflight, i), FALSE, errorShown)
        /\ totalPages' = tp
        /\ itemCount' = itemsOfPage(inflight[i].page, tc, tp, pageSize)
        /\ loadedPage' = IF component = "references" THEN inflight[i].page ELSE 0
        /\ lastSettled' = "ok"
        /\ lastEvent' = [kind |-> "fetched", index |-> 0]
        /\ UNCHANGED <<component, isLoggingOut, searchInput, selectedFileGlobalIndex>>

FetchSucceeds ==
    \E tp \in ApiPageCounts :
      \E tc \in TotalsOfPages(tp, pageSize) : Respond(tp, tc)

(* a fetch settles with an error *)
FetchFails ==
    \E i \in 1..Len(inflight) :
        /\ Effects(0, 0, currentPage, activeSearchQuery, isLoggedIn, 0, 0, TRUE,
                   selectedFileGlobalIndex, RemoveAt(inflight, i), FALSE, TRUE)
        /\ totalPages' = 0
        /\ itemCount' = 0
        /\ loadedPage' = 0
        /\ UNCHANGED selectedFileGlobalIndex
        /\ lastSettled' = "failed"
        /\ lastEvent' = [kind |-> "failed", index |-> 0]
        /\ UNCHANGED <<component, isLoggingOut, searchInput>>

(* the page is rendered, not the error screen, its controls are enabled    *)
(* and the overlay of the modal does not cover them                        *)
ControlsEnabled == ~loading /\ ~isLoggingOut /\ ~errorShown /\ modalFileDetails = NoFile

(* the navigation is rendered and enabled *)
PageNavShown == ControlsEnabled /\ totalCount # 0 /\ itemCount > 0 /\ totalPages > 1

(* the Prev button *)
PagePrevious ==
    /\ PageNavShown
    /\ currentPage # 1
    /\ PageSetCurrentPage(Max(currentPage - 1, 1), [kind |-> "previous", index |-> 0])

(* the Next button *)
PageNext ==
    /\ PageNavShown
    /\ currentPage # totalPages
    /\ PageSetCurrentPage(Min(currentPage + 1, totalPages), [kind |-> "next", index |-> 0])

(* the button of a page number *)
PageClickNumber ==
    \E index \in 1..Len(paginationRange) :
        /\ PageNavShown
        /\ ~paginationRange[index].dots
        /\ currentPage # paginationRange[index].page
        /\ PageSetCurrentPage(
               handlePageChange(component, paginationRange[index].page, totalPages),
               [kind |-> "page", index |-> index])

(* the button of an ellipsis *)
PageClickDots ==
    \E index \in 1..Len(paginationRange) :
        /\ PageNavShown
        /\ paginationRange[index].dots
        /\ dotsIsButton(component, paginationRange, index, totalPages)
        /\ PageSetCurrentPage(
               handlePageChange(component,
                                targetPage(component, paginationRange, index, totalPages),
                                totalPages),
               [kind |-> "dots", index |-> index])

(* handleKeyDown, attached while totalPages > 1 *)
handleKeyDown ==
    \E key \in {"ArrowLeft", "ArrowRight"} :
        /\ totalPages > 1
        /\ selectedFileGlobalIndex = NoSelection
        /\ ~(isLoggingOut \/ loading)
        /\ IF key = "ArrowLeft" THEN currentPage > 1 ELSE currentPage < totalPages
        /\ PageSetCurrentPage(
               IF key = "ArrowLeft" THEN Max(currentPage - 1, 1)
               ELSE Min(currentPage + 1, totalPages),
               [kind |-> key, index |-> 0])

(* typing in the search field *)
handleSearchInputChange ==
    \E value \in QueryStrings :
        /\ ControlsEnabled
        /\ value # searchInput
        /\ searchInput' = value
        /\ lastEvent' = [kind |-> "input", index |-> 0]
        /\ UNCHANGED <<hookVars, component, totalPages, loading, errorShown, isLoggedIn,
                       isLoggingOut, activeSearchQuery, itemCount, inflight, lastSettled,
                       loadedPage, selectedFileGlobalIndex, modalFileDetails>>

(* submitting the search form *)
handleSearchSubmit ==
    LET newQuery == trim(searchInput)
    IN  /\ ControlsEnabled
        /\ IF newQuery # activeSearchQuery
             THEN Commit(totalCount, 1, newQuery, isLoggedIn, inflight, loading, errorShown)
             ELSE UNCHANGED <<hookVars, activeSearchQuery, isLoggedIn, inflight, loading,
                              errorShown, loadedPage, selectedFileGlobalIndex,
                              modalFileDetails>>
        /\ lastEvent' = [kind |-> "submit", index |-> 0]
        /\ UNCHANGED <<component, totalPages, isLoggingOut, searchInput, itemCount,
                       lastSettled>>

(* the Log Out button: without a token the login is dropped at once, else  *)
(* the request is sent                                                     *)
handleLogout ==
    \E token \in BOOLEAN :
        /\ ControlsEnabled
        /\ isLoggedIn = "true"
        /\ Commit(totalCount, currentPage, activeSearchQuery,
                  IF token THEN isLoggedIn ELSE "false", inflight, loading, errorShown)
        /\ isLoggingOut' = token
        /\ lastEvent' = [kind |-> "logout", index |-> 0]
        /\ UNCHANGED <<component, totalPages, searchInput, itemCount, lastSettled>>

(* the log-out request settles: the login is dropped unless the request    *)
(* failed with another status than 401                                     *)
LogoutSettles ==
    \E dropped \in BOOLEAN :
        /\ isLoggingOut
        /\ Commit(totalCount, currentPage, activeSearchQuery,
                  IF dropped THEN "false" ELSE isLoggedIn, inflight, loading, errorShown)
        /\ isLoggingOut' = FALSE
        /\ lastEvent' = [kind |-> "loggedOut", index |-> 0]
        /\ UNCHANGED <<component, totalPages, searchInput, itemCount, lastSettled>>

PageStep ==
    \/ AuthChecked
    \/ FetchSucceeds
    \/ FetchFails
    \/ PagePrevious
    \/ PageNext
    \/ PageClickNumber
    \/ PageClickDots
    \/ handleKeyDown
    \/ handleSearchInputChange
    \/ handleSearchSubmit
    \/ handleLogout
    \/ LogoutSettles

PageSpec == PageInit /\ [][PageStep]_vars

(***************************************************************************)
(* The references page with its modal.  The search form and the log-out    *)
(* are left alone here, so the listing of one query is paged; the page     *)
(* size is the one set through NEXT_PUBLIC_FILES_PER_PAGE.  The buttons of *)
(* the modal are not disabled while loading.                               *)
(***************************************************************************)

RefPerPage == 2

MaxRefPages == 2

(* the page counts a response may carry here: with so few pages the pager  *)
(* shows no ellipsis                                                       *)
RefPageCounts == 0..MaxRefPages

RefInit ==
    \E urlPage \in 0..MaxUrlPage :
        LET r == computeRange(0, RefPerPage, REFERENCES_SIBLING_COUNT,
                              getInitialPage(urlPage))
        IN  /\ component = "references"
            /\ totalCount = 0
            /\ pageSize = RefPerPage
            /\ siblingCountOmitted = FALSE
            /\ siblingCount = REFERENCES_SIBLING_COUNT
            /\ currentPage = getInitialPage(urlPage)
            /\ paginationRange = r.value
            /\ warned = r.warn
            /\ totalPages = 0
            /\ lastEvent = NoEvent
            /\ loading = TRUE
            /\ errorShown = FALSE
            /\ isLoggedIn = "null"
            /\ isLoggingOut = FALSE
            /\ searchInput = <<>>
            /\ activeSearchQuery = <<>>
            /\ itemCount = 0
            /\ inflight = <<>>
            /\ lastSettled = "none"
            /\ loadedPage = 0
            /\ selectedFileGlobalIndex = NoSelection
            /\ modalFileDetails = NoFile

RefFetchSucceeds ==
    \E tp \in RefPageCounts :
      \E tc \in TotalsOfPages(tp, pageSize) : Respond(tp, tc)

(* (currentPage - 1) * FILES_PER_PAGE *)
fileStartIndex == (currentPage - 1) * pageSize

(* an event that calls setSelectedFileGlobalIndex *)
SetSelectedFileGlobalIndex(idx, event) ==
    /\ Effects(totalCount, totalPages, currentPage, activeSearchQuery, isLoggedIn,
               loadedPage, itemCount, FALSE, idx, inflight, loading, errorShown)
    /\ selectedFileGlobalIndex' = idx
    /\ lastEvent' = event
    /\ UNCHANGED <<component, totalPages, isLoggingOut, searchInput, itemCount,
                   lastSettled, loadedPage>>

(* the button of a file of the grid *)
handleFileClick ==
    \E indexOnPage \in 0..(itemCount - 1) :
        /\ component = "references"
        /\ ControlsEnabled
        /\ totalCount # 0
        /\ SetSelectedFileGlobalIndex(fileStartIndex + indexOnPage,
                                      [kind |-> "file", index |-> indexOnPage])

(* ImageModal is rendered: the page is, and modalFileDetails has a file *)
ModalShown ==
    /\ component = "references"
    /\ modalFileDetails # NoFile
    /\ ~(errorShown /\ ~loading)

hasPreviousFileInModal ==
    selectedFileGlobalIndex # NoSelection /\ selectedFileGlobalIndex > 0

hasNextFileInModal ==
    selectedFileGlobalIndex # NoSelection /\ selectedFileGlobalIndex < totalCount - 1

(* closing the modal *)
handleCloseModal ==
    /\ ModalShown
    /\ SetSelectedFileGlobalIndex(NoSelection, [kind |-> "close", index |-> 0])

(* Previous of the modal *)
handleModalPrevious ==
    /\ ModalShown
    /\ hasPreviousFileInModal
    /\ SetSelectedFileGlobalIndex(
           IF selectedFileGlobalIndex = NoSelection \/ selectedFileGlobalIndex = 0
             THEN 0 ELSE selectedFileGlobalIndex - 1,
           [kind |-> "modalPrevious", index |-> 0])

(* Next of the modal *)
handleModalNext ==
    /\ ModalShown
    /\ hasNextFileInModal
    /\ SetSelectedFileGlobalIndex(
           IF selectedFileGlobalIndex = NoSelection
                \/ selectedFileGlobalIndex >= totalCount - 1
             THEN Max(0, totalCount - 1) ELSE selectedFileGlobalIndex + 1,
           [kind |-> "modalNext", index |-> 0])

RefStep ==
    \/ AuthChecked
    \/ RefFetchSucceeds
    \/ FetchFails
    \/ PagePrevious
    \/ PageNext
    \/ PageClickNumber
    \/ handleKeyDown
    \/ handleFileClick
    \/ handleCloseModal
    \/ handleModalPrevious
    \/ handleModalNext

RefSpec == RefInit /\ [][RefStep]_vars

----------------------------------------------------------------------------
(* The quantities the properties are stated in, computed from the props    *)
(* alone and not through the operators that model the code.                *)

(* ceil(totalCount / pageSize): the least k with k * pageSize >= totalCount *)
TotalPages ==
    CHOOSE k \in 0..totalCount :
        k * pageSize >= totalCount /\ (k - 1) * pageSize < totalCount

Span == 5 + 2 * siblingCount

LeftSibling == IF currentPage - siblingCount > 1 THEN currentPage - siblingCount ELSE 1

RightSibling ==
    IF currentPage + siblingCount < TotalPages THEN currentPage + siblingCount
    ELSE TotalPages

Long == TotalPages > Span

LeftDots == LeftSibling > 2

RightDots == RightSibling < TotalPages - 1

Num(p) == [dots |-> FALSE, page |-> p]

Ellipsis == [dots |-> TRUE, page |-> 0]

(* the window a, a+1, ..., b of page numbers *)
NumsFromTo(a, b) == [i \in 1..(b - a + 1) |-> Num(a + i - 1)]

Positions == 1..Len(paginationRange)

DotPositions == {i \in Positions : paginationRange[i].dots}

HasDots == DotPositions # {}

TypeOK ==
    /\ totalCount \in TotalCounts
    /\ pageSize \in PageSizes
    /\ siblingCountOmitted \in BOOLEAN
    /\ siblingCount \in SiblingCounts \cup {defaultSiblingCount}
    /\ siblingCountOmitted => siblingCount = defaultSiblingCount
    /\ currentPage \in CurrentPages
    /\ warned \in BOOLEAN
    /\ \A i \in Positions : paginationRange[i] = Ellipsis \/
                            (~paginationRange[i].dots /\ paginationRange[i].page \in Nat)

----------------------------------------------------------------------------
(* C1: the numeric entries of the returned window are strictly increasing  *)
(* from left to right.                                                     *)
C1_NumbersStrictlyIncreasing ==
    \A i, j \in Positions :
        (i < j /\ ~paginationRange[i].dots /\ ~paginationRange[j].dots)
            => paginationRange[i].page < paginationRange[j].page

(* a window with both ellipses whose right sibling is two pages before the last *)
C1_Witness ==
    /\ Long /\ LeftDots /\ RightDots
    /\ RightSibling = TotalPages - 2
    /\ Cardinality(DotPositions) = 2
    /\ C1_NumbersStrictlyIncreasing

(* C2: when totalPages > 0 the first entry is the number 1 and the last    *)
(* entry is the number totalPages, whatever currentPage >= 1 is passed.    *)
C2_FirstAndLast ==
    TotalPages > 0 =>
        /\ Len(paginationRange) >= 1
        /\ paginationRange[1] = Num(1)
        /\ paginationRange[Len(paginationRange)] = Num(TotalPages)

(* a long window computed for a currentPage past the last page *)
C2_Witness ==
    /\ Long /\ currentPage > TotalPages
    /\ HasDots
    /\ paginationRange[1] = Num(1)
    /\ paginationRange[Len(paginationRange)] = Num(TotalPages)

(* C3: if totalPages <= 5 + 2*siblingCount the window is exactly           *)
(* 1, 2, ..., totalPages with no ellipsis, independent of currentPage.     *)
C3_ShortIsFullRange ==
    TotalPages <= Span => paginationRange = NumsFromTo(1, TotalPages)

(* the example: 240 items, 24 per page, 4 siblings give 1..10 *)
C3_Witness ==
    /\ totalCount = 240 /\ pageSize = 24 /\ siblingCount = 4 /\ currentPage = 5
    /\ paginationRange = <<Num(1), Num(2), Num(3), Num(4), Num(5),
                           Num(6), Num(7), Num(8), Num(9), Num(10)>>

(* C4: no two ellipsis entries of the window are adjacent.                 *)
C4_NoAdjacentEllipses ==
    \A i \in Positions :
        (i + 1 \in Positions /\ paginationRange[i].dots) => ~paginationRange[i + 1].dots

(* both ellipses with no sibling: one number stands between them *)
C4_Witness ==
    /\ siblingCount = 0
    /\ Cardinality(DotPositions) = 2
    /\ \E i \in Positions : DotPositions = {i, i + 2}

(* C5: when totalPages > 5 + 2*siblingCount and both dot flags are true    *)
(* the window is 1, ELLIPSIS, leftSibling..rightSibling, ELLIPSIS,         *)
(* totalPages.                                                             *)
C5_CaseBothDots ==
    (Long /\ LeftDots /\ RightDots) =>
        paginationRange = <<Num(1), Ellipsis>> \o NumsFromTo(LeftSibling, RightSibling)
                            \o <<Ellipsis, Num(TotalPages)>>

(* the example: 2400 items, 24 per page, page 50, 4 siblings *)
C5_Witness ==
    /\ totalCount = 2400 /\ pageSize = 24 /\ currentPage = 50 /\ siblingCount = 4
    /\ paginationRange = <<Num(1), Ellipsis, Num(46), Num(47), Num(48), Num(49), Num(50),
                           Num(51), Num(52), Num(53), Num(54), Ellipsis, Num(100)>>

(* C6: when totalPages > 5 + 2*siblingCount, leftSibling <= 2 and          *)
(* rightSibling < totalPages - 1, the window is 1..(3 + 2*siblingCount),   *)
(* one ELLIPSIS, totalPages.                                               *)
C6_CaseRightDotsOnly ==
    (Long /\ ~LeftDots /\ RightDots) =>
        paginationRange = NumsFromTo(1, 3 + 2 * siblingCount)
                            \o <<Ellipsis, Num(TotalPages)>>

(* the example: page 1 of 100 pages with 4 siblings *)
C6_Witness ==
    /\ totalCount = 2400 /\ pageSize = 24 /\ currentPage = 1 /\ siblingCount = 4
    /\ paginationRange = <<Num(1), Num(2), Num(3), Num(4), Num(5), Num(6), Num(7),
                           Num(8), Num(9), Num(10), Num(11), Ellipsis, Num(100)>>

(* C7: when totalPages > 5 + 2*siblingCount, leftSibling > 2 and           *)
(* rightSibling >= totalPages - 1, the window is 1, one ELLIPSIS, then the *)
(* last 3 + 2*siblingCount pages.                                          *)
C7_CaseLeftDotsOnly ==
    (Long /\ LeftDots /\ ~RightDots) =>
        paginationRange = <<Num(1), Ellipsis>>
                            \o NumsFromTo(TotalPages - (3 + 2 * siblingCount) + 1, TotalPages)

(* the last page of 10 pages with 1 sibling: 1, ELLIPSIS, 6..10 *)
C7_Witness ==
    /\ totalCount = 10 /\ pageSize = 1 /\ currentPage = 10 /\ siblingCount = 1
    /\ paginationRange = <<Num(1), Ellipsis, Num(6), Num(7), Num(8), Num(9), Num(10)>>

(* C8: the fallback branch is never taken: no window is returned with the  *)
(* console warning, and whenever totalPages > 5 + 2*siblingCount at least  *)
(* one of the two dot flags is true.                                       *)
C8_FallbackUnreachable ==
    /\ ~warned
    /\ Long => (LeftDots \/ RightDots)

(* the long window nearest to the fallback: the left sibling is page 2 and *)
(* totalPages is one more than the span                                    *)
C8_Witness ==
    /\ TotalPages = Span + 1
    /\ LeftSibling = 2 /\ currentPage = siblingCount + 2
    /\ RightDots
    /\ HasDots
    /\ ~warned

(* C9: the window never has more than 5 + 2*siblingCount entries, and has  *)
(* exactly that many whenever it contains an ellipsis.                     *)
C9_AtMostSpanEntries ==
    /\ Len(paginationRange) <= Span
    /\ HasDots => Len(paginationRange) = Span

(* a window of 100 pages cut down to the span *)
C9_Witness ==
    /\ TotalPages = 100
    /\ HasDots
    /\ Len(paginationRange) = Span

(* C10: for 1 <= currentPage <= totalPages, the current page and all its   *)
(* siblings in [leftSibling, rightSibling] are numeric entries of the      *)
(* window.                                                                 *)
C10_NeighbourhoodVisible ==
    (1 <= currentPage /\ currentPage <= TotalPages) =>
        \A p \in LeftSibling..RightSibling :
            \E i \in Positions : paginationRange[i] = Num(p)

(* right dots only, with the current page as far right as that case allows *)
C10_Witness ==
    /\ Long /\ ~LeftDots /\ RightDots
    /\ siblingCount > 0
    /\ currentPage = siblingCount + 2
    /\ \E i \in Positions : paginationRange[i] = Num(currentPage + siblingCount)
    /\ \E i \in Positions : paginationRange[i] = Num(currentPage)

(* C11: totalCount = 0 gives the empty sequence, for every pageSize > 0,   *)
(* currentPage and siblingCount.                                          *)
C11_NoItemsNoPages ==
    totalCount = 0 => (TotalPages = 0 /\ paginationRange = <<>>)

(* no items, asked for a page past the first with siblings *)
C11_Witness ==
    /\ totalCount = 0 /\ pageSize > 1 /\ currentPage > 1 /\ siblingCount > 0
    /\ Len(paginationRange) = 0

(* C12: when the caller omits siblingCount the hook uses 4 siblings, so a  *)
(* window with dots on both sides has 13 entries.                          *)
C12_DefaultFourSiblings ==
    (siblingCountOmitted /\ Cardinality(DotPositions) = 2) =>
        (siblingCount = 4 /\ Len(paginationRange) = 13)

(* C13: for totalPages > 5 + 2*siblingCount and currentPage > totalPages   *)
(* the window is the one 1, ELLIPSIS, last 3 + 2*siblingCount pages, and   *)
(* it does not contain currentPage.                                        *)
C13_PastTheEndIsLastWindow ==
    (Long /\ currentPage > TotalPages) =>
        /\ paginationRange = <<Num(1), Ellipsis>>
                \o NumsFromTo(TotalPages - (3 + 2 * siblingCount) + 1, TotalPages)
        /\ \A i \in Positions : paginationRange[i] # Num(currentPage)

(* page 32 of 8 pages with 1 sibling: 1, ELLIPSIS, 4..8 *)
C13_Witness ==
    /\ totalCount = 8 /\ pageSize = 1 /\ siblingCount = 1 /\ currentPage = 32
    /\ paginationRange = <<Num(1), Ellipsis, Num(4), Num(5), Num(6), Num(7), Num(8)>>

(* the numeric entries around the ellipsis at position i *)
Before(i) == paginationRange[i - 1].page

After(i) == paginationRange[i + 1].page

(* an ellipsis stands between two numeric entries *)
Flanked(i) ==
    /\ i - 1 \in Positions /\ ~paginationRange[i - 1].dots
    /\ i + 1 \in Positions /\ ~paginationRange[i + 1].dots

(* C14: every ellipsis of a window stands for at least two omitted page    *)
(* numbers.                                                                *)
C14_EllipsisHidesAtLeastTwo ==
    \A i \in DotPositions : Flanked(i) /\ After(i) - Before(i) >= 3

(* C15: every ellipsis hides at least one page: the numeric entries right  *)
(* before and after it differ by at least 2.                               *)
C15_EllipsisHidesAtLeastOne ==
    \A i \in DotPositions : Flanked(i) /\ After(i) - Before(i) >= 2

(* a left ellipsis that hides page 2 alone *)
C15_Witness ==
    /\ Long /\ LeftSibling = 3
    /\ paginationRange[2] = Ellipsis
    /\ Before(2) = 1 /\ After(2) = 3

(* the window reversed, every number x replaced by totalPages + 1 - x *)
Mirror(w) ==
    [i \in 1..Len(w) |->
        LET e == w[Len(w) + 1 - i]
        IN  IF e.dots THEN Ellipsis ELSE Num(TotalPages + 1 - e.page)]

(* C16: for 1 <= currentPage <= totalPages, moving to page                 *)
(* totalPages + 1 - currentPage gives the mirrored window.                 *)
C16_MirrorSymmetric ==
    [][ ( /\ 1 <= currentPage /\ currentPage <= TotalPages
          /\ currentPage' = TotalPages + 1 - currentPage
          /\ totalCount' = totalCount /\ pageSize' = pageSize
          /\ siblingCount' = siblingCount )
        => paginationRange' = Mirror(paginationRange) ]_vars

(* a window with left dots only, the mirror image of right dots only *)
C16_Witness ==
    /\ Long /\ LeftDots /\ ~RightDots
    /\ currentPage <= TotalPages
    /\ siblingCount = 2
    /\ TotalPages + 1 - currentPage = siblingCount + 2
    /\ paginationRange = Mirror(NumsFromTo(1, 3 + 2 * siblingCount)
                                  \o <<Ellipsis, Num(TotalPages)>>)

----------------------------------------------------------------------------
(* Properties of the pagers (PagerSpec) *)

(* C17: in every pager a click on an ellipsis jumps to the rounded average *)
(* of the numeric entries right before and right after that ellipsis.      *)
C17_DotsJumpToMidpoint ==
    [][ lastEvent'.kind = "dots" =>
          LET i   == lastEvent'.index
              sum == paginationRange[i - 1].page + paginationRange[i + 1].page
          IN  /\ 2 * currentPage' - 1 <= sum
              /\ sum <= 2 * currentPage' + 1 ]_vars

(* C18: for every ellipsis of the window the jump target of the pager is a *)
(* page strictly between the numeric entries next to the ellipsis, within  *)
(* 1..totalPages, and the ellipsis is rendered as a button.                *)
C18_DotsTargetIsHiddenPage ==
    totalPages = TotalPages =>
        \A i \in DotPositions :
            LET target == targetPage(component, paginationRange, i, totalPages)
            IN  /\ Flanked(i)
                /\ Before(i) < target /\ target < After(i)
                /\ 1 <= target /\ target <= totalPages
                /\ dotsIsButton(component, paginationRange, i, totalPages)

(* the favorites pager after a jump through the left ellipsis that hides   *)
(* page 2 alone                                                            *)
C18_Witness ==
    /\ component = "favorites"
    /\ lastEvent = [kind |-> "dots", index |-> 2]
    /\ currentPage = 2
    /\ totalPages = TotalPages
    /\ DotPositions # {}

-----------------------------------------------------------------------------
(* Properties of the main and references pages (PageSpec) *)

(* a string without the white space at its ends *)
Stripped(s) ==
    LET solid == {k \in 1..Len(s) : s[k] # " "}
    IN  IF solid = {} THEN <<>>
        ELSE SubSeq(s, CHOOSE k \in solid : \A m \in solid : k <= m,
                       CHOOSE k \in solid : \A m \in solid : m <= k)

(* C19: on the main page a successful response with T pages moves a        *)
(* currentPage above T > 0 to T and a currentPage other than 1 to 1 when   *)
(* T = 0; whenever no fetch is in flight after a successful response,      *)
(* 1 <= currentPage <= max(1, T); and currentPage is never below 1.        *)
C19_PageValidated ==
    /\ [](component = "main" =>
            /\ currentPage >= 1
            /\ (inflight = <<>> /\ lastSettled = "ok") =>
                   (currentPage = 1 \/ currentPage <= totalPages))
    /\ [][ (component = "main" /\ lastEvent'.kind = "fetched") =>
             /\ (totalPages' > 0 /\ currentPage > totalPages') =>
                    currentPage' = totalPages'
             /\ (totalPages' = 0 /\ currentPage # 1) => currentPage' = 1 ]_vars

(* the main page opened on page 2 of the URL, answered with 1 page: the    *)
(* page is now 1 and its fetch is in flight                                *)
C19_Witness ==
    /\ component = "main"
    /\ lastEvent.kind = "fetched"
    /\ totalPages = 1
    /\ currentPage = 1
    /\ loading
    /\ Len(inflight) = 1
    /\ inflight[1].page = 1

C20_WitnessNoChange ==
    /\ component = "main"
    /\ lastEvent.kind = "submit"
    /\ searchInput = <<" ">>
    /\ activeSearchQuery = <<>>
    /\ currentPage > 1
    /\ inflight = <<>>

-----------------------------------------------------------------------------
(* Properties of the references page with its modal (RefSpec) *)

(* C21: on the references page, once every fetch has settled and none      *)
(* failed, the files that currentReferenceFiles holds are the files of the *)
(* page currentPage (a page of the listing), in whatever order the         *)
(* responses arrived.                                                      *)
C21_FilesOfCurrentPage ==
    (/\ component = "references"
     /\ inflight = <<>>
     /\ lastSettled = "ok"
     /\ ~errorShown
     /\ itemCount > 0
     /\ currentPage <= totalPages) => loadedPage = currentPage

(* C22: on the references page, whenever modalFileDetails changes to a     *)
(* file, that file is the one at the selected global index; while the page *)
(* of the selected index is not loaded it keeps its previous value.        *)
C22_DetailsAreSelectedFile ==
    [][ (/\ component = "references"
         /\ modalFileDetails' # modalFileDetails
         /\ modalFileDetails' # NoFile) =>
             modalFileDetails' = selectedFileGlobalIndex' ]_vars

====
